---------------------------- MODULE Spec2Model ----------------------------
(***************************************************************************)
(* The decoding helpers of open_seq2seq/parts/tacotron/tacotron_helper.py: *)
(* TacotronTrainingHelper (teacher forcing / scheduled sampling) and       *)
(* TacotronHelper (free running, stop-token driven), driven by a host      *)
(* decoding loop that calls initialize once and then next_inputs with      *)
(* time = 0, 1, 2, ...                                                     *)
(*                                                                         *)
(* Tensors of rank 2 and 3 are nested sequences (1-based: the entry the    *)
(* code reads at index t is entry t + 1 here).  A tensor whose rank the    *)
(* code changes (finished, the stop-token predictions) is a record         *)
(* [shape, flat] of its shape and its values in row-major order.  Float    *)
(* values are integers, with NaN a value of its own that every comparison  *)
(* answers FALSE on.                                                       *)
(***************************************************************************)
EXTENDS Integers, Sequences, FiniteSets, TLC

VARIABLES
  args,   \* the constructor's arguments (never changed after construction)
  self,   \* the helper's fields, as __init__ leaves them
  pc,     \* "constructed", "initialized", then "ready" (to call sample or
          \* next_inputs), "sampled" and "returned"
  time,   \* the step index the host loop passes to its next next_inputs call
  call,   \* the arguments (and the Bernoulli draw) of the call that returned
  ret,    \* what that call returned
  last_finished,  \* the finished vector of the next_inputs call before it
  ncalls, \* how many times in a row the call that returned was made
  reads   \* the indices at which that call read the ground-truth buffer

vars == <<args, self, pc, time, call, ret, last_finished, ncalls, reads>>

----------------------------------------------------------------------------
(* Bounds of the model *)

\* largest batch size; the batch sizes are 1..MaxBatch
MaxBatch == 2
\* feature dimension of the inputs and of the model output
NumFeats == 2
\* time length of the inputs handed to the constructor; also the step budget
\* of the host loop and the largest sequence length
MaxTime == 2
\* how many times in a row the host loop makes one call
MaxCalls == 2

----------------------------------------------------------------------------
(* Float values *)

NaN == 1000 * 1000

IsNaN(x) == x = NaN

\* x > y and x <= y on floats: FALSE as soon as one side is NaN
FloatGt(x, y) == ~IsNaN(x) /\ ~IsNaN(y) /\ x > y
FloatLe(x, y) == ~IsNaN(x) /\ ~IsNaN(y) /\ x <= y

FloatAdd(x, y) == IF IsNaN(x) \/ IsNaN(y) THEN NaN ELSE x + y

\* the value the sampling branch fills the not-sampled positions with
FillValue == -20

----------------------------------------------------------------------------
(* Tensor operations of the runtime, as the helper uses them *)

\* tile([False], [n])
TileFalse(n) == [shape |-> <<n>>, flat |-> [k \in 1..n |-> FALSE]]

\* math_ops.reduce_all over every entry (TRUE for no entry)
ReduceAll(f) == \A k \in 1..Len(f.flat) : f.flat[k]

\* _transpose_batch_time: [a, b, n_feats] -> [b, a, n_feats]
TransposeBatchTime(x) ==
  IF Len(x) = 0 THEN <<>>
  ELSE [b \in 1..Len(x[1]) |-> [a \in 1..Len(x) |-> x[a][b]]]

\* array_ops.zeros_like of a [rows, cols] tensor
ZerosLike(m) == [i \in 1..Len(m) |-> [d \in 1..Len(m[i]) |-> 0]]


----------------------------------------------------------------------------
(* The injected prenet: a deterministic elementwise transform, not the      *)
(* identity, that keeps the feature dimension and maps NaN to NaN.          *)

PrenetValue(x) == IF IsNaN(x) THEN NaN ELSE 2 * x + 1

\* self._prenet(m) on a [rows, cols] tensor
Prenet(m) == [i \in 1..Len(m) |-> [d \in 1..Len(m[i]) |-> PrenetValue(m[i][d])]]

\* tf.stop_gradient: the identity on forward values
StopGradient(m) == m

\* the truthiness test written as "is not False": None counts as set
Truthy_NotFalse(x) == x # "False"

\* Python truthiness of the mask_decoder_sequence argument (None, False, True)
Truthy(x) == x = "True"

----------------------------------------------------------------------------
(* The inputs of a decode *)

Feats == 1..NumFeats

\* the ground-truth sequences, batch major: [batch, time, n_feats], every
\* entry a different value
GroundTruth(B) ==
  [i \in 1..B |-> [t \in 1..MaxTime |-> [d \in Feats |-> 500 + 100 * i + 10 * t + d]]]

\* the inputs argument in the layout time_major announces: [time, batch,
\* n_feats] when it is set, [batch, time, n_feats] otherwise
GivenInputs(B, tm) == IF tm THEN TransposeBatchTime(GroundTruth(B)) ELSE GroundTruth(B)

\* sampling probabilities, in percent
SamplingProbs == {0, 50, 100}

MaskValues == {"None", "False", "True"}

PrenetValues == {"None", "prenet"}

\* the sequence lengths of a batch: every length from 1 to the time length of
\* the buffer, and the batches of empty sequences
SequenceLengths ==
  UNION { [1..n -> 1..MaxTime] \cup {[i \in 1..n |-> 0]} : n \in 1..MaxBatch }

\* the constructor arguments of either helper; those TacotronHelper does not
\* take are left at TacotronTrainingHelper's defaults
TrainingArgs ==
  { [helper |-> "training", inputs |-> GivenInputs(Len(sl), tm),
     time_major |-> tm, sequence_length |-> sl, prenet |-> pn, sampling_prob |-> sp,
     anneal_teacher_forcing |-> an, stop_gradient |-> sg, mask_decoder_sequence |-> mk] :
    tm \in BOOLEAN, pn \in PrenetValues, sp \in SamplingProbs,
    an \in BOOLEAN, sg \in BOOLEAN, mk \in MaskValues,
    sl \in SequenceLengths }

InferenceArgs ==
  { [helper |-> "inference", inputs |-> GivenInputs(B, tm),
     time_major |-> tm, sequence_length |-> <<>>, prenet |-> pn, sampling_prob |-> 0,
     anneal_teacher_forcing |-> FALSE, stop_gradient |-> FALSE,
     mask_decoder_sequence |-> mk] :
    B \in 1..MaxBatch, tm \in BOOLEAN, pn \in PrenetValues, mk \in MaskValues }

\* the batch size of the data a helper was constructed with
BatchOf(a) == IF a.time_major THEN Len(a.inputs[1]) ELSE Len(a.inputs)

----------------------------------------------------------------------------
(* Construction *)

\* TacotronTrainingHelper.__init__
TrainingHelperInit(a) ==
  LET inputs == IF ~a.time_major THEN TransposeBatchTime(a.inputs) ELSE a.inputs
      zero_inputs == ZerosLike(inputs[1])
      start_inputs == IF a.prenet # "None" THEN Prenet(zero_inputs) ELSE zero_inputs
  IN  [input_tas |-> inputs,
       sequence_length |-> a.sequence_length,
       batch_size |-> Len(a.sequence_length),
       sampling_prob |-> a.sampling_prob,
       anneal_teacher_forcing |-> a.anneal_teacher_forcing,
       stop_gradient |-> a.stop_gradient,
       mask_decoder_sequence |-> a.mask_decoder_sequence,
       prenet |-> a.prenet,
       zero_inputs |-> zero_inputs,
       start_inputs |-> start_inputs,
       last_dim |-> Len(start_inputs[1])]

\* a constructor that takes the start input from the inputs as they are given
HelperInit_NoTranspose(a) ==
  LET inputs == a.inputs[1]
  IN  [input_tas |-> <<>>,
       sequence_length |-> <<>>,
       batch_size |-> Len(a.inputs),
       sampling_prob |-> 0,
       anneal_teacher_forcing |-> FALSE,
       stop_gradient |-> FALSE,
       mask_decoder_sequence |-> a.mask_decoder_sequence,
       prenet |-> a.prenet,
       zero_inputs |-> <<>>,
       start_inputs |-> IF a.prenet = "None" THEN inputs ELSE Prenet(inputs),
       last_dim |-> 0]

\* TacotronHelper.__init__; the fields it does not set are empty
HelperInit(a) ==
  LET batch_size == Len(a.inputs)
      transposed == IF ~a.time_major THEN TransposeBatchTime(a.inputs) ELSE a.inputs
      inputs == transposed[1]
  IN  [input_tas |-> <<>>,
       sequence_length |-> <<>>,
       batch_size |-> batch_size,
       sampling_prob |-> 0,
       anneal_teacher_forcing |-> FALSE,
       stop_gradient |-> FALSE,
       mask_decoder_sequence |-> a.mask_decoder_sequence,
       prenet |-> a.prenet,
       zero_inputs |-> <<>>,
       start_inputs |-> IF a.prenet = "None" THEN inputs ELSE Prenet(inputs),
       last_dim |-> 0]

NoFinished == [shape |-> <<0>>, flat |-> <<>>]

NoCall == [time |-> -1, outputs |-> <<>>, state |-> <<>>,
           stop_token_predictions |-> NoFinished,
           select_sample |-> <<>>]

NoRet == [op |-> "none", finished |-> NoFinished, next_inputs |-> <<>>, state |-> <<>>]

Init ==
  /\ args \in TrainingArgs \cup InferenceArgs
  /\ self = IF args.helper = "training" THEN TrainingHelperInit(args) ELSE HelperInit(args)
  /\ pc = "constructed"
  /\ time = 0
  /\ call = NoCall
  /\ ret = NoRet
  /\ last_finished = NoFinished
  /\ ncalls = 0
  /\ reads = {}

----------------------------------------------------------------------------
(* initialize *)

\* TacotronTrainingHelper.initialize and TacotronHelper.initialize (the same code)
InitializeResult(s) ==
  [op |-> "initialize", finished |-> TileFalse(s.batch_size),
   next_inputs |-> s.start_inputs, state |-> <<>>]

\* the host loop's call of initialize, before step 0 (and the same call made
\* again)
Initialize ==
  /\ \/ pc = "constructed"
     \/ pc = "initialized" /\ ncalls < MaxCalls
  /\ ret' = InitializeResult(self)
  /\ pc' = "initialized"
  /\ ncalls' = ncalls + 1
  /\ UNCHANGED <<args, self, time, call, last_finished, reads>>

\* the host loop takes the first input and goes on to step 0
Begin ==
  /\ pc = "initialized"
  /\ ret' = NoRet
  /\ ncalls' = 0
  /\ pc' = "ready"
  /\ UNCHANGED <<args, self, time, call, last_finished, reads>>

----------------------------------------------------------------------------
(* The runtime's select, gather and scatter *)

\* the positions of a [rows, cols] tensor in row-major order, as array_ops.where
\* lists them
Positions(rows, cols) ==
  [k \in 1..(rows * cols) |-> <<((k - 1) \div cols) + 1, ((k - 1) % cols) + 1>>]

\* tf.tile(x, [1, n]) of a [rows, 1] tensor
TileColumns(x, n) == [i \in 1..Len(x) |-> [d \in 1..n |-> x[i][1]]]

\* gen_array_ops.fill([rows, cols], v)
Fill(rows, cols, v) == [i \in 1..rows |-> [d \in 1..cols |-> v]]

\* array_ops.where(cond, x, y), elementwise
WhereSelect(cond, x, y) ==
  [i \in 1..Len(cond) |-> [d \in 1..Len(cond[i]) |-> IF cond[i][d] THEN x[i][d] ELSE y[i][d]]]

\* array_ops.where(m > v): the indices of the entries greater than v
WhereGreater(m, v) ==
  IF Len(m) = 0 THEN <<>>
  ELSE SelectSeq(Positions(Len(m), Len(m[1])), LAMBDA p : FloatGt(m[p[1]][p[2]], v))

\* array_ops.where(m <= v): the indices of the entries at most v
WhereLessEqual(m, v) ==
  IF Len(m) = 0 THEN <<>>
  ELSE SelectSeq(Positions(Len(m), Len(m[1])), LAMBDA p : FloatLe(m[p[1]][p[2]], v))

\* array_ops.gather_nd(m, indices)
GatherNd(m, indices) == [k \in 1..Len(indices) |-> m[indices[k][1]][indices[k][2]]]

\* the tensor acc with the updates from the k-th on added at their indices
RECURSIVE ScatterInto(_, _, _, _)
ScatterInto(acc, indices, updates, k) ==
  IF k > Len(indices) THEN acc
  ELSE ScatterInto([acc EXCEPT ![indices[k][1]][indices[k][2]] = FloatAdd(@, updates[k])],
                   indices, updates, k + 1)

\* array_ops.scatter_nd(indices, updates, shape): zeros, with every update
\* added at its index (updates of one index add up)
ScatterNd(indices, updates, shape) ==
  ScatterInto(Fill(shape[1], shape[2], 0), indices, updates, 1)

\* the shape of a [rows, cols] tensor
Shape2(m) == <<Len(m), IF Len(m) = 0 THEN 0 ELSE Len(m[1])>>

\* elementwise + of two [rows, cols] tensors
TensorAdd(x, y) ==
  [i \in 1..Len(x) |-> [d \in 1..Len(x[i]) |-> FloatAdd(x[i][d], y[i][d])]]

----------------------------------------------------------------------------
(* TacotronTrainingHelper.next_inputs *)

\* the length test with > for >=: an element is finished one step late
TrainingFinished_Strict(s, t) ==
  LET next_time == t + 1
  IN  IF Truthy(s.mask_decoder_sequence)
      THEN [shape |-> <<Len(s.sequence_length)>>,
            flat |-> [i \in 1..Len(s.sequence_length) |-> next_time > s.sequence_length[i]]]
      ELSE TileFalse(s.batch_size)

\* the length test with = for >=: an element is finished at its last step only
TrainingFinished_AtEndOnly(s, t) ==
  LET next_time == t + 1
  IN  IF Truthy(s.mask_decoder_sequence)
      THEN [shape |-> <<Len(s.sequence_length)>>,
            flat |-> [i \in 1..Len(s.sequence_length) |-> next_time = s.sequence_length[i]]]
      ELSE TileFalse(s.batch_size)

\* the length test with its sides swapped
TrainingFinished_Swapped(s, t) ==
  LET next_time == t + 1
  IN  IF Truthy(s.mask_decoder_sequence)
      THEN [shape |-> <<Len(s.sequence_length)>>,
            flat |-> [i \in 1..Len(s.sequence_length) |-> s.sequence_length[i] >= next_time]]
      ELSE TileFalse(s.batch_size)

\* the length test a step ahead: an element is finished one step early
TrainingFinished_Early(s, t) ==
  LET next_time == t + 1
  IN  IF Truthy(s.mask_decoder_sequence)
      THEN [shape |-> <<Len(s.sequence_length)>>,
            flat |-> [i \in 1..Len(s.sequence_length) |->
                        next_time + 1 >= s.sequence_length[i]]]
      ELSE TileFalse(s.batch_size)

\* finished = (next_time >= self._sequence_length), or all False
TrainingFinished(s, t) ==
  LET next_time == t + 1
  IN  IF Truthy(s.mask_decoder_sequence)
      THEN [shape |-> <<Len(s.sequence_length)>>,
            flat |-> [i \in 1..Len(s.sequence_length) |-> next_time >= s.sequence_length[i]]]
      ELSE TileFalse(s.batch_size)

\* whether get_next_input takes the branch that draws the Bernoulli sample
SamplingBranch(s) == s.anneal_teacher_forcing \/ s.sampling_prob > 0

\* the combination of the model output and the ground truth under the draw
CombineSampled(s, next_input, out, draw) ==
  LET select_sample == TileColumns(draw, s.last_dim)
      sample_ids == WhereSelect(select_sample, out, Fill(s.batch_size, s.last_dim, FillValue))
      where_sampling == WhereGreater(sample_ids, FillValue)
      where_not_sampling == WhereLessEqual(sample_ids, FillValue)
      sample_ids_sampling == GatherNd(sample_ids, where_sampling)
      inputs_not_sampling == GatherNd(next_input, where_not_sampling)
      base_shape == Shape2(next_input)
  IN  TensorAdd(ScatterNd(where_sampling, sample_ids_sampling, base_shape),
                ScatterNd(where_not_sampling, inputs_not_sampling, base_shape))

\* get_next_input with the prenet applied to the model output only
TrainingGetNextInput_RawGroundTruth(s, t, outputs, draw) ==
  LET read == s.input_tas[t + 1]
      next_input == IF s.stop_gradient THEN StopGradient(read) ELSE read
      out0 == IF s.stop_gradient THEN StopGradient(outputs) ELSE outputs
      out == IF s.prenet # "None" THEN Prenet(out0) ELSE out0
  IN  IF SamplingBranch(s) THEN CombineSampled(s, next_input, out, draw) ELSE next_input

\* get_next_input(inp, out) of the training helper, with the draw it made
TrainingGetNextInput(s, t, outputs, draw) ==
  LET read == s.input_tas[t + 1]
      next_input0 == IF s.stop_gradient THEN StopGradient(read) ELSE read
      out0 == IF s.stop_gradient THEN StopGradient(outputs) ELSE outputs
      next_input == IF s.prenet # "None" THEN Prenet(next_input0) ELSE next_input0
      out == IF s.prenet # "None" THEN Prenet(out0) ELSE out0
  IN  IF SamplingBranch(s) THEN CombineSampled(s, next_input, out, draw) ELSE next_input

\* next_inputs that hands the model output back once all are finished
TrainingNextInputs_OutputWhenFinished(s, t, outputs, state, draw) ==
  LET finished == TrainingFinished(s, t)
  IN  [op |-> "next_inputs", finished |-> finished,
       next_inputs |-> IF ReduceAll(finished)
                       THEN (IF s.prenet # "None" THEN Prenet(outputs) ELSE outputs)
                       ELSE TrainingGetNextInput(s, t, outputs, draw),
       state |-> state]

TrainingNextInputs(s, t, outputs, state, draw) ==
  LET finished == TrainingFinished(s, t)
      all_finished == ReduceAll(finished)
  IN  [op |-> "next_inputs", finished |-> finished,
       next_inputs |-> IF all_finished THEN s.start_inputs
                       ELSE TrainingGetNextInput(s, t, outputs, draw),
       state |-> state]

----------------------------------------------------------------------------
(* What the host loop and the model supply at a step *)

\* the values a model output holds besides its ordinary ones: the fill value,
\* a value below it, and NaN
SpecialValues == {FillValue, FillValue - 1, NaN}

\* an ordinary model output: every entry a different positive value
OrdinaryOutput(B) == [i \in 1..B |-> [d \in Feats |-> 10 * i + d]]

\* the model outputs of a step: the ordinary one, and it with the first
\* feature of one batch element replaced by a special value
ModelOutputs(B) ==
  {OrdinaryOutput(B)} \cup
  { [OrdinaryOutput(B) EXCEPT ![i][1] = v] : i \in 1..B, v \in SpecialValues }

\* the decoder state the host loop holds at step t: opaque to the helper
DecoderState(t) == <<"cell", t>>

\* Bernoulli(probs = p).sample((B, 1)): uniform in [0, 1) below p
BernoulliSamples(p, B) ==
  { x \in [1..B -> [1..1 -> BOOLEAN]] :
      \A i \in 1..B : (p = 0 => ~x[i][1]) /\ (p = 100 => x[i][1]) }

\* a read whether or not all are finished
TrainingReads_Unconditional(s, t) == {t}

\* the indices at which a training call reads self._input_tas: inp.read(time)
\* in get_next_input, the branch of the cond taken unless all are finished
TrainingReads(s, t) == IF ReduceAll(TrainingFinished(s, t)) THEN {} ELSE {t}

\* the draws a training call can make: none when it draws no sample
TrainingDraws(s, t) ==
  IF SamplingBranch(s) /\ ~ReduceAll(TrainingFinished(s, t))
  THEN BernoulliSamples(s.sampling_prob, s.batch_size)
  ELSE {<<>>}

\* one step of the host loop on a training helper
TrainingStep ==
  /\ args.helper = "training"
  /\ pc = "ready"
  /\ time < MaxTime
  /\ \E outputs \in ModelOutputs(BatchOf(args)), draw \in TrainingDraws(self, time) :
       /\ call' = [time |-> time, outputs |-> outputs, state |-> DecoderState(time),
                   stop_token_predictions |-> NoFinished, select_sample |-> draw]
       /\ ret' = TrainingNextInputs(self, time, outputs, DecoderState(time), draw)
  /\ reads' = TrainingReads(self, time)
  /\ ncalls' = 1
  /\ pc' = "returned"
  /\ UNCHANGED <<args, self, time, last_finished>>

----------------------------------------------------------------------------
(* TacotronHelper.next_inputs *)

\* the sigmoid of the negated prediction
SigmoidValue_Negated(x) ==
  CASE x >= 3 -> 0
    [] x = 2 -> 119
    [] x = 1 -> 269
    [] x = 0 -> 500
    [] x = -1 -> 731
    [] x = -2 -> 881
    [] OTHER -> 1000

\* tf.sigmoid of a stop-token prediction, in thousandths
SigmoidValue(x) ==
  CASE x <= -3 -> 0
    [] x = -2 -> 119
    [] x = -1 -> 269
    [] x = 0 -> 500
    [] x = 1 -> 731
    [] x = 2 -> 881
    [] OTHER -> 1000

\* a round that takes a half upwards
RoundValue_HalfUp(m) == (m + 500) \div 1000

\* tf.round of a value in thousandths: to the nearest integer, a half to the
\* even one
RoundValue(m) ==
  LET q == m \div 1000
      r == m % 1000
  IN  IF r < 500 THEN q
      ELSE IF r > 500 THEN q + 1
      ELSE IF q % 2 = 0 THEN q ELSE q + 1

\* tf.cast(x, tf.bool)
CastBool(x) == x # 0

\* tf.squeeze: the dimensions of size 1 are removed
Squeeze(x) == [shape |-> SelectSeq(x.shape, LAMBDA n : n # 1), flat |-> x.flat]

\* finished = squeeze(cast(round(sigmoid(stop_token_predictions)))), or all False
HelperFinished(s, stop_token_predictions) ==
  IF Truthy(s.mask_decoder_sequence)
  THEN LET sigmoid == [k \in 1..Len(stop_token_predictions.flat) |->
                         SigmoidValue(stop_token_predictions.flat[k])]
           rounded == [k \in 1..Len(sigmoid) |-> CastBool(RoundValue(sigmoid[k]))]
       IN  Squeeze([shape |-> stop_token_predictions.shape, flat |-> rounded])
  ELSE TileFalse(s.batch_size)

\* get_next_input without the prenet
HelperGetNextInput_NoPrenet(s, out) == out

\* get_next_input(out) of the inference helper
HelperGetNextInput(s, out) == IF s.prenet # "None" THEN Prenet(out) ELSE out

\* next_inputs without the all-finished short-circuit
HelperNextInputs_NoShortCircuit(s, t, outputs, state, stop_token_predictions) ==
  [op |-> "next_inputs", finished |-> HelperFinished(s, stop_token_predictions),
   next_inputs |-> HelperGetNextInput(s, outputs), state |-> state]

\* next_inputs that returns no decoder state
HelperNextInputs_DropsState(s, t, outputs, state, stop_token_predictions) ==
  LET finished == HelperFinished(s, stop_token_predictions)
  IN  [op |-> "next_inputs", finished |-> finished,
       next_inputs |-> IF ReduceAll(finished) THEN s.start_inputs
                       ELSE HelperGetNextInput(s, outputs),
       state |-> <<>>]

HelperNextInputs(s, t, outputs, state, stop_token_predictions) ==
  LET next_time == t + 1
      finished == HelperFinished(s, stop_token_predictions)
      all_finished == ReduceAll(finished)
  IN  [op |-> "next_inputs", finished |-> finished,
       next_inputs |-> IF all_finished THEN s.start_inputs
                       ELSE HelperGetNextInput(s, outputs),
       state |-> state]

\* the stop-token predictions the model supplies at a step: [B, 1]
StopValues == {-1, 0, 1}

StopPredictions(B) == { [shape |-> <<B, 1>>, flat |-> f] : f \in [1..B -> StopValues] }

\* one step of the host loop on an inference helper
InferenceStep ==
  /\ args.helper = "inference"
  /\ pc = "ready"
  /\ time < MaxTime
  /\ \E outputs \in ModelOutputs(BatchOf(args)), stp \in StopPredictions(BatchOf(args)) :
       /\ call' = [time |-> time, outputs |-> outputs, state |-> DecoderState(time),
                   stop_token_predictions |-> stp, select_sample |-> <<>>]
       /\ ret' = HelperNextInputs(self, time, outputs, DecoderState(time), stp)
  /\ reads' = {}
  /\ ncalls' = 1
  /\ pc' = "returned"
  /\ UNCHANGED <<args, self, time, last_finished>>

\* the host loop takes what the call returned and moves to the next step
Advance ==
  /\ pc = "returned"
  /\ last_finished' = ret.finished
  /\ time' = time + 1
  /\ call' = NoCall
  /\ ret' = NoRet
  /\ ncalls' = 0
  /\ reads' = {}
  /\ pc' = "ready"
  /\ UNCHANGED <<args, self>>

\* the host loop makes the call of a step again once every element is
\* finished: the same step, decoder state and (inference) stop-token
\* predictions, whatever the model now outputs (here
\* the ordinary output or one with an entry below the fill value)
RepeatOutputs(B) ==
  { OrdinaryOutput(B), [OrdinaryOutput(B) EXCEPT ![1][1] = FillValue - 1] }

TrainingRepeat ==
  /\ args.helper = "training"
  /\ pc = "returned"
  /\ ReduceAll(ret.finished)
  /\ ncalls < MaxCalls
  /\ \E outputs \in RepeatOutputs(BatchOf(args)), draw \in TrainingDraws(self, time) :
       /\ call' = [call EXCEPT !.outputs = outputs, !.select_sample = draw]
       /\ ret' = TrainingNextInputs(self, time, outputs, call.state, draw)
  /\ reads' = TrainingReads(self, time)
  /\ ncalls' = ncalls + 1
  /\ UNCHANGED <<args, self, pc, time, last_finished>>

InferenceRepeat ==
  /\ args.helper = "inference"
  /\ pc = "returned"
  /\ ReduceAll(ret.finished)
  /\ ncalls < MaxCalls
  /\ \E outputs \in RepeatOutputs(BatchOf(args)) :
       /\ call' = [call EXCEPT !.outputs = outputs]
       /\ ret' = HelperNextInputs(self, time, outputs, call.state,
                                  call.stop_token_predictions)
  /\ reads' = {}
  /\ ncalls' = ncalls + 1
  /\ UNCHANGED <<args, self, pc, time, last_finished>>

----------------------------------------------------------------------------
(* sample *)

\* math_ops.argmax along one row: the kernel's reducer starts from index 0
\* holding the lowest value and moves to an entry when it is greater than the
\* one it holds, so the first of equal maxima wins and a NaN is never taken
RECURSIVE ArgMaxScan(_, _, _)
ArgMaxScan(row, d, best) ==
  IF d > Len(row) THEN (IF best = 0 THEN 0 ELSE best - 1)
  ELSE LET greater == IF best = 0 THEN ~IsNaN(row[d]) ELSE FloatGt(row[d], row[best])
       IN  ArgMaxScan(row, d + 1, IF greater THEN d ELSE best)

ArgMax(row) == ArgMaxScan(row, 1, 0)

\* math_ops.cast(x, dtypes.int32) of an int64 index: an index along the
\* features is below 2^31 and is kept as it is
CastInt32(x) == x

\* a sample that returns the index of the step
Sample_AtStep(t, outputs, state) ==
  [i \in 1..Len(outputs) |-> CastInt32(t % Len(outputs[i]))]

\* sample(time, outputs, state) of either helper: time and state are deleted
Sample(t, outputs, state) ==
  [i \in 1..Len(outputs) |-> CastInt32(ArgMax(outputs[i]))]

\* the model outputs sample is called with: the ordinary one, whose entries
\* rise along the features, one whose entries fall, one whose entries are all
\* equal, and the ordinary one with a NaN as the last feature of the first
\* batch element
SampleOutputs(B) ==
  { OrdinaryOutput(B),
    [i \in 1..B |-> [d \in Feats |-> 10 * i - d]],
    [i \in 1..B |-> [d \in Feats |-> 10 * i]],
    [OrdinaryOutput(B) EXCEPT ![1][NumFeats] = NaN] }

\* the host loop's call of sample at a step, before next_inputs
SampleStep ==
  /\ pc = "ready"
  /\ time < MaxTime
  /\ \E outputs \in SampleOutputs(BatchOf(args)) :
       /\ call' = [NoCall EXCEPT !.time = time, !.outputs = outputs,
                                 !.state = DecoderState(time)]
       /\ ret' = [op |-> "sample",
                  sample_ids |-> Sample(time, outputs, DecoderState(time))]
  /\ pc' = "sampled"
  /\ ncalls' = 1
  /\ reads' = {}
  /\ UNCHANGED <<args, self, time, last_finished>>

\* the host loop takes the sample ids as the output of the step; next_inputs
\* of the step is still to be called
TakeSample ==
  /\ pc = "sampled"
  /\ call' = NoCall
  /\ ret' = NoRet
  /\ ncalls' = 0
  /\ pc' = "ready"
  /\ UNCHANGED <<args, self, time, last_finished, reads>>

Next ==
  \/ Initialize
  \/ Begin
  \/ SampleStep
  \/ TakeSample
  \/ TrainingStep
  \/ InferenceStep
  \/ TrainingRepeat
  \/ InferenceRepeat
  \/ Advance


Spec == Init /\ [][Next]_vars

\* The decode of a training helper that masks: the host loop calls initialize
\* once and then next_inputs at step 0, 1, 2, ..., and goes on to the next
\* step only while the call returned some element unfinished. The loop is
\* sequential, so a call it can make is made. The decode is followed for the
\* helpers that draw no sample (finished is computed before get_next_input
\* and without it).
DecodeInit ==
  /\ Init
  /\ args.helper = "training"
  /\ Truthy(args.mask_decoder_sequence)
  /\ ~SamplingBranch(self)

InitializeOnce == pc = "constructed" /\ Initialize

Continue == pc = "returned" /\ ~ReduceAll(ret.finished) /\ Advance

DecodeNext == InitializeOnce \/ Begin \/ TrainingStep \/ Continue

DecodeSpec == DecodeInit /\ [][DecodeNext]_vars /\ WF_vars(DecodeNext)

----------------------------------------------------------------------------
(* Vocabulary of the properties *)

\* a next_inputs call has returned: call holds its arguments, ret its results
Returned == pc = "returned"

IsTraining == args.helper = "training"

IsInference == args.helper = "inference"

MaskingEnabled == args.mask_decoder_sequence = "True"

\* the finished vector of the returned call is true for every batch element
AllFinished == \A k \in 1..Len(ret.finished.flat) : ret.finished.flat[k]

\* the call before the one now made or about to be made returned an
\* all-true finished vector
PreviousAllFinished ==
  /\ time > 0
  /\ \A k \in 1..Len(last_finished.flat) : last_finished.flat[k]

\* a value as the next input holds it: through the prenet if one is configured
Prenetted(x) == IF args.prenet = "None" THEN x ELSE PrenetValue(x)

\* the ground-truth value of batch element i, feature d at step t (from 0)
GroundTruthAt(i, t, d) == GroundTruth(BatchOf(args))[i][t + 1][d]

\* the next input of the returned call has one row per batch element and one
\* entry per feature
NextInputShaped ==
  /\ Len(ret.next_inputs) = BatchOf(args)
  /\ \A i \in 1..BatchOf(args) : Len(ret.next_inputs[i]) = NumFeats

\* the returned call was made with a model output holding the fill value
OutputHoldsFillValue ==
  \E i \in 1..Len(call.outputs) : \E d \in 1..Len(call.outputs[i]) :
    call.outputs[i][d] = FillValue

----------------------------------------------------------------------------
(* C1: training helper with sampling_prob = 1: at every step where the      *)
(* batch is not all finished, the next input is the (prenet-transformed)    *)
(* model output at every batch element and feature, whatever the model      *)
(* output is.                                                               *)
C1_SamplingAlwaysModelOutput ==
  (Returned /\ IsTraining /\ args.sampling_prob = 100 /\ ~AllFinished) =>
    /\ NextInputShaped
    /\ \A i \in 1..BatchOf(args) : \A d \in Feats :
         ret.next_inputs[i][d] = Prenetted(call.outputs[i][d])

(* C2: training helper, sampling branch: the scatter-based combination      *)
(* equals the elementwise select: batch element i's next input is wholly    *)
(* its model output when its Bernoulli draw is true and wholly its          *)
(* ground-truth input at index t when it is false.                          *)
C2_ScatterEqualsSelect ==
  (Returned /\ IsTraining /\ ~AllFinished
     /\ (args.sampling_prob > 0 \/ args.anneal_teacher_forcing)) =>
    /\ NextInputShaped
    /\ \A i \in 1..BatchOf(args) : \A d \in Feats :
         ret.next_inputs[i][d] =
           IF call.select_sample[i][1] THEN Prenetted(call.outputs[i][d])
           ELSE Prenetted(GroundTruthAt(i, call.time, d))

(* C3: training helper, pure teacher forcing (sampling_prob = 0, annealing  *)
(* disabled): at every step where the batch is not all finished, the next   *)
(* input is the (prenet-transformed) ground-truth entry at index t for      *)
(* every batch element, whatever the model output is.                       *)
C3_TeacherForcingExact ==
  (Returned /\ IsTraining /\ ~AllFinished
     /\ args.sampling_prob = 0 /\ ~args.anneal_teacher_forcing) =>
    /\ NextInputShaped
    /\ \A i \in 1..BatchOf(args) : \A d \in Feats :
         ret.next_inputs[i][d] = Prenetted(GroundTruthAt(i, call.time, d))

\* C3's case: a teacher-forced step after the first, with a prenet and a
\* model output holding the fill value
C3_Witness ==
  /\ Returned /\ IsTraining /\ ~AllFinished
  /\ args.sampling_prob = 0 /\ ~args.anneal_teacher_forcing
  /\ args.prenet # "None"
  /\ call.time = 1
  /\ OutputHoldsFillValue

(* C4: both helpers: when mask_decoder_sequence is false or unset, every    *)
(* next_inputs call returns finished = false at every entry, whatever the   *)
(* sequence lengths or the stop-token predictions are.                      *)
C4_UnmaskedNeverFinished ==
  (Returned /\ ~MaskingEnabled) =>
    /\ Len(ret.finished.flat) >= 1
    /\ \A k \in 1..Len(ret.finished.flat) : ~ret.finished.flat[k]

\* C4's case: masking unset, and a step at which masking would have reported
\* every element finished (past every sequence length, every stop-token
\* prediction positive)
C4_Witness ==
  /\ Returned /\ args.mask_decoder_sequence = "None"
  /\ call.time = 1
  /\ \/ IsTraining /\ \A i \in 1..BatchOf(args) : args.sequence_length[i] = 1
     \/ IsInference /\ BatchOf(args) = 2
          /\ \A k \in 1..2 : call.stop_token_predictions.flat[k] = 1

(* C5: training helper with masking: next_inputs returns for every batch    *)
(* element i finished[i] = (t + 1 >= sequence_length[i]).                   *)
C5_TrainingFinishedByLength ==
  (Returned /\ IsTraining /\ MaskingEnabled) =>
    /\ ret.finished.shape = <<BatchOf(args)>>
    /\ Len(ret.finished.flat) = BatchOf(args)
    /\ \A i \in 1..BatchOf(args) :
         ret.finished.flat[i] = (call.time + 1 >= args.sequence_length[i])

\* C5's case: two sequences of different lengths at the step that ends the
\* shorter one: element 0 is finished, element 1 is not
C5_Witness ==
  /\ Returned /\ IsTraining /\ MaskingEnabled
  /\ args.sequence_length = <<1, 2>>
  /\ call.time = 0
  /\ ret.finished.flat = <<TRUE, FALSE>>

(* C6: both helpers: whenever the finished vector a next_inputs call        *)
(* computes is true for every batch element, the next input it returns is   *)
(* the helper's start_input, whatever the model output and the ground truth *)
(* are.                                                                     *)
C6_AllFinishedReturnsStart ==
  (Returned /\ AllFinished) => ret.next_inputs = self.start_inputs

\* C6's case: the training helper with sequence_length = [1, 1] called at
\* t = 1 with a model output holding the fill value
C6_Witness ==
  /\ Returned /\ IsTraining /\ AllFinished
  /\ args.sequence_length = <<1, 1>>
  /\ call.time = 1
  /\ ret.finished.flat = <<TRUE, TRUE>>
  /\ OutputHoldsFillValue

\* a next_inputs call is made (the step from "ready" to "returned") right
\* after a call that returned an all-true finished vector
LaterCallAfterAllFinished == pc = "ready" /\ PreviousAllFinished /\ pc' = "returned"

\* the stop-token prediction x rounds to finished: sigmoid(x) is above one half
RoundsToFinished(x) == x > 0

(* C7, as stated: both helpers: once a next_inputs call has returned an     *)
(* all-true finished vector, every later call of the decode returns an      *)
(* all-true finished vector and start_input, whatever the model supplies.   *)
C7_AllFinishedAbsorbing ==
  [][LaterCallAfterAllFinished =>
       /\ \A k \in 1..Len(ret'.finished.flat) : ret'.finished.flat[k]
       /\ ret'.next_inputs = self.start_inputs]_vars

(* C7, amended: once a next_inputs call has returned an all-true finished   *)
(* vector, every later call of the training helper, and every later call    *)
(* of the inference helper whose own stop-token predictions all round to    *)
(* finished, returns an all-true finished vector and start_input.           *)
C7_AbsorbingWhileStopPredicted ==
  [][(/\ LaterCallAfterAllFinished
      /\ IsInference =>
           \A k \in 1..Len(call'.stop_token_predictions.flat) :
             RoundsToFinished(call'.stop_token_predictions.flat[k])) =>
       /\ \A k \in 1..Len(ret'.finished.flat) : ret'.finished.flat[k]
       /\ ret'.next_inputs = self.start_inputs]_vars

\* C7's case: a training call after the call that ended the longest
\* sequence, again all finished
C7_Witness ==
  /\ Returned /\ IsTraining /\ MaskingEnabled
  /\ PreviousAllFinished
  /\ call.time = 1
  /\ AllFinished
  /\ ret.next_inputs = self.start_inputs
  /\ OutputHoldsFillValue

\* a next_inputs call is made right after another one of the same decode
LaterCall == pc = "ready" /\ time > 0 /\ pc' = "returned"

(* C8: training helper with masking: finished is monotone: an element       *)
(* reported finished by the call at t is reported finished by the call at   *)
(* every later step.                                                        *)
C8_TrainingFinishedMonotone ==
  [][(LaterCall /\ IsTraining /\ MaskingEnabled) =>
       /\ Len(ret'.finished.flat) = Len(last_finished.flat)
       /\ \A i \in 1..Len(last_finished.flat) :
            last_finished.flat[i] => ret'.finished.flat[i]]_vars

\* C8's case: the shorter of two sequences was finished at t = 0 and is
\* still finished at t = 1, where the longer one ends
C8_Witness ==
  /\ Returned /\ IsTraining /\ MaskingEnabled
  /\ args.sequence_length = <<1, 2>>
  /\ call.time = 1
  /\ last_finished.flat = <<TRUE, FALSE>>
  /\ ret.finished.flat = <<TRUE, TRUE>>

(* C9, as stated: inference helper with masking: an element reported        *)
(* finished by the call at t is reported finished by the call at every      *)
(* later step, whatever stop-token prediction the model supplies there.     *)
C9_InferenceFinishedMonotone ==
  [][(LaterCall /\ IsInference /\ MaskingEnabled) =>
       /\ Len(ret'.finished.flat) = Len(last_finished.flat)
       /\ \A i \in 1..Len(last_finished.flat) :
            last_finished.flat[i] => ret'.finished.flat[i]]_vars

(* C9, amended: inference helper with masking: an element reported finished *)
(* by the call at t is reported finished by a later call whenever the       *)
(* stop-token prediction the model supplies for it at that call again       *)
(* rounds to finished.                                                      *)
C9_MonotoneWhileStopPredicted ==
  [][(LaterCall /\ IsInference /\ MaskingEnabled) =>
       /\ Len(ret'.finished.flat) = Len(last_finished.flat)
       /\ \A i \in 1..Len(last_finished.flat) :
            (last_finished.flat[i]
               /\ RoundsToFinished(call'.stop_token_predictions.flat[i]))
              => ret'.finished.flat[i]]_vars

\* C9's case: of two elements finished at t = 0, the one whose stop-token
\* prediction is positive again at t = 1 is finished there
C9_Witness ==
  /\ Returned /\ IsInference /\ MaskingEnabled
  /\ call.time = 1
  /\ last_finished.flat = <<TRUE, TRUE>>
  /\ call.stop_token_predictions.flat = <<1, -1>>
  /\ ret.finished.flat[1]

(* C10: inference helper: at every step where the batch is not all          *)
(* finished the next input is prenet(model_output), or model_output itself  *)
(* without a prenet, for every batch element; the only other value a call   *)
(* returns is start_input, when all are finished.                           *)
C10_InferenceFeedsModelOutput ==
  (Returned /\ IsInference) =>
    IF AllFinished THEN ret.next_inputs = self.start_inputs
    ELSE /\ NextInputShaped
         /\ \A i \in 1..BatchOf(args) : \A d \in Feats :
              ret.next_inputs[i][d] = Prenetted(call.outputs[i][d])

\* C10's case: a prenet, one element of two finished and the other not
C10_Witness ==
  /\ Returned /\ IsInference /\ MaskingEnabled
  /\ args.prenet # "None"
  /\ ret.finished.flat = <<TRUE, FALSE>>
  /\ ret.next_inputs # self.start_inputs
  /\ OutputHoldsFillValue

----------------------------------------------------------------------------
(* C11: inference helper with masking: the finished entry of every batch    *)
(* element is true exactly when round(sigmoid(stop prediction)) of that     *)
(* element in the current call is 1, which is when the prediction is above  *)
(* 0 (sigmoid(0) = 0.5 rounds to the even 0); the step and the model output *)
(* have no part in it.                                                      *)
C11_FinishedFromStopPrediction ==
  (Returned /\ IsInference /\ MaskingEnabled) =>
    /\ Len(ret.finished.flat) = BatchOf(args)
    /\ \A i \in 1..BatchOf(args) :
         ret.finished.flat[i] = RoundsToFinished(call.stop_token_predictions.flat[i])

\* a later call (step 1) where one element predicts exactly 0 and stays
\* unfinished while the other predicts stop
C11_Witness ==
  /\ Returned /\ IsInference /\ MaskingEnabled
  /\ call.time = 1
  /\ call.stop_token_predictions.flat = <<0, 1>>
  /\ ret.finished.flat = <<FALSE, TRUE>>

----------------------------------------------------------------------------
\* the start input the data a helper was constructed with calls for: zeros
\* for the training helper, the first time step of the given sequence for the
\* inference helper, through the prenet if one is configured
ExpectedStartInput ==
  [i \in 1..BatchOf(args) |-> [d \in Feats |->
     IF IsTraining THEN Prenetted(0) ELSE Prenetted(GroundTruthAt(i, 0, d))]]

\* the call that returned all finished is made again at the same step
RepeatedCall ==
  /\ pc = "returned" /\ pc' = "returned"
  /\ AllFinished
  /\ call'.time = call.time
  /\ call'.stop_token_predictions = call.stop_token_predictions

(* C12: either helper: when a next_inputs call at step t has returned an    *)
(* all-true finished vector, the same call made again (same t, same         *)
(* sequence lengths or stop-token predictions) returns the same all-true    *)
(* finished vector and the same start input, whatever model output it is    *)
(* given.                                                                   *)
C12_IdempotentAtTermination ==
  [][RepeatedCall =>
       /\ ret'.finished = ret.finished
       /\ \A k \in 1..Len(ret'.finished.flat) : ret'.finished.flat[k]
       /\ ret'.next_inputs = ret.next_inputs
       /\ ret'.next_inputs = ExpectedStartInput]_vars

\* a training call repeated after all finished, now with a model output
\* holding an entry below the fill value, that returned the start input
C12_Witness ==
  /\ Returned /\ IsTraining /\ MaskingEnabled
  /\ ncalls = MaxCalls
  /\ AllFinished
  /\ call.outputs[1][1] = FillValue - 1
  /\ args.sampling_prob = 100
  /\ ret.next_inputs = ExpectedStartInput

----------------------------------------------------------------------------
\* initialize has returned: ret holds its results
Initialized == pc = "initialized"

(* C13: initialize of either helper returns a finished vector that is false *)
(* at every entry, whatever the mask setting and the sequence lengths, and  *)
(* the start input: zeros for every batch element (training helper) or the  *)
(* first time step of the given sequence of every batch element (inference  *)
(* helper), through the prenet if one is configured; initialize called      *)
(* again returns the same pair.                                             *)
C13_InitializeResult ==
  [][Initialized' =>
       /\ Len(ret'.finished.flat) >= 1
       /\ \A k \in 1..Len(ret'.finished.flat) : ~ret'.finished.flat[k]
       /\ ret'.next_inputs = ExpectedStartInput
       /\ Initialized =>
            (ret'.finished = ret.finished /\ ret'.next_inputs = ret.next_inputs)]_vars

\* initialize called again on an inference helper that has a prenet and was
\* given time-major inputs of two batch elements
C13_Witness ==
  /\ Initialized /\ ncalls = MaxCalls
  /\ IsInference /\ args.time_major /\ args.prenet = "prenet"
  /\ BatchOf(args) = MaxBatch
  /\ ret.next_inputs = ExpectedStartInput
  /\ ret.next_inputs[MaxBatch][1] = PrenetValue(GroundTruthAt(MaxBatch, 0, 1))

----------------------------------------------------------------------------
(* C14: every next_inputs call returns as its third result the decoder      *)
(* state it was given, and no call of initialize, sample or next_inputs     *)
(* changes the ground-truth buffer, the sequence lengths, the start input   *)
(* or the configuration of the helper: after any calls they are as the      *)
(* constructor set them.                                                    *)
C14_StatePassedHelperUnchanged ==
  /\ Returned => (ret.op = "next_inputs" /\ ret.state = call.state)
  /\ self = IF IsTraining THEN TrainingHelperInit(args) ELSE HelperInit(args)
  /\ IsTraining =>
       /\ self.input_tas = TransposeBatchTime(GroundTruth(BatchOf(args)))
       /\ self.sequence_length = args.sequence_length
  /\ self.start_inputs = ExpectedStartInput

\* next_inputs of step 1 on a training helper, after initialize, sample and
\* next_inputs of step 0: the state of step 1 came back and the helper is as
\* constructed
C14_Witness ==
  /\ Returned /\ IsTraining
  /\ call.time = 1
  /\ call.state = DecoderState(1)
  /\ ret.state = DecoderState(1)
  /\ self = TrainingHelperInit(args)
  /\ self.input_tas = TransposeBatchTime(GroundTruth(BatchOf(args)))

----------------------------------------------------------------------------
\* sample has returned: call holds its arguments, ret its sample ids
Sampled == pc = "sampled"

(* C15: sample(t, model_output, state) of either helper returns, for every  *)
(* batch element, an index along the features (from 0) at which the model   *)
(* output of that element is maximal: no entry is greater than the one at   *)
(* the index; the ids are those of the model output at any other step and   *)
(* with any other decoder state.                                            *)
C15_SampleIsArgMax ==
  Sampled =>
    /\ Len(ret.sample_ids) = BatchOf(args)
    /\ \A i \in 1..BatchOf(args) :
         /\ ret.sample_ids[i] \in 0..(NumFeats - 1)
         /\ \A d \in Feats :
              ~FloatGt(call.outputs[i][d], call.outputs[i][ret.sample_ids[i] + 1])
    /\ \A t \in 0..MaxTime :
         Sample(t, call.outputs, DecoderState(t)) = ret.sample_ids

\* sample at step 1 of a model output whose entries fall along the features:
\* index 0 for every batch element
C15_Witness ==
  /\ Sampled
  /\ call.time = 1
  /\ BatchOf(args) = MaxBatch
  /\ \A i \in 1..MaxBatch : \A d \in Feats : call.outputs[i][d] = 10 * i - d
  /\ \A i \in 1..MaxBatch : ret.sample_ids[i] = 0

----------------------------------------------------------------------------
(* C16: for both helpers and every batch size B >= 1, B = 1 included, the   *)
(* finished value that initialize and every next_inputs call return is a    *)
(* vector with exactly B entries, with masking enabled or disabled.         *)
C16_FinishedHasBatchEntries ==
  (Initialized \/ Returned) =>
    /\ ret.finished.shape = <<BatchOf(args)>>
    /\ Len(ret.finished.flat) = BatchOf(args)

----------------------------------------------------------------------------
\* the greatest of the sequence lengths the training helper was given
MaxSequenceLength ==
  CHOOSE m \in 0..MaxTime :
    /\ \A i \in 1..Len(args.sequence_length) : args.sequence_length[i] <= m
    /\ \E i \in 1..Len(args.sequence_length) : args.sequence_length[i] = m

(* C17: training helper with masking, the buffer at least as long as the    *)
(* greatest sequence length: a next_inputs call at step t reads the buffer  *)
(* at index t and only when the batch is not all finished, and every index  *)
(* t read satisfies t + 1 < max(sequence_length), so it is inside the       *)
(* buffer.                                                                  *)
C17_ReadsInsideBuffer ==
  (Returned /\ IsTraining /\ MaskingEnabled
     /\ Len(self.input_tas) >= MaxSequenceLength) =>
    /\ reads = IF AllFinished THEN {} ELSE {call.time}
    /\ \A r \in reads :
         /\ r + 1 < MaxSequenceLength
         /\ r >= 0 /\ r < Len(self.input_tas)

\* step 0 of sequences of lengths 1 and 2: the second is unfinished and the
\* buffer is read at index 0
C17_Witness ==
  /\ Returned /\ IsTraining /\ MaskingEnabled
  /\ args.sequence_length = <<1, 2>>
  /\ call.time = 0
  /\ ~AllFinished
  /\ reads = {0}

----------------------------------------------------------------------------
\* max(1, max(sequence_length))
DecodeCalls == IF MaxSequenceLength > 1 THEN MaxSequenceLength ELSE 1

(* C18: training helper with masking, in a host loop that calls initialize  *)
(* once, then next_inputs at step 0, 1, 2, ... and stops at the first       *)
(* all-true finished vector: the loop ends after exactly                    *)
(* max(1, max(sequence_length)) calls of next_inputs; every call before the *)
(* last returns some element unfinished, and the last returns all finished. *)
C18_DecodeTerminates ==
  /\ [](Returned =>
          /\ call.time + 1 <= DecodeCalls
          /\ AllFinished <=> (call.time + 1 = DecodeCalls))
  /\ <>[](Returned /\ AllFinished /\ call.time + 1 = DecodeCalls)

\* the decode of sequences of lengths 1 and 2 has stopped after its second
\* call
C18_Witness ==
  /\ Returned /\ IsTraining /\ MaskingEnabled
  /\ args.sequence_length = <<1, 2>>
  /\ call.time = 1
  /\ last_finished.flat = <<TRUE, FALSE>>
  /\ AllFinished

----------------------------------------------------------------------------
\* the returned call took the sampling branch of get_next_input
SamplingCall == Returned /\ IsTraining /\ SamplingBranch(self) /\ ~AllFinished

(* C19: sampling branch of the training helper: for every Bernoulli draw    *)
(* and every model output, where_sampling and where_not_sampling are        *)
(* disjoint and together hold every (batch, feature) position, so the sum   *)
(* of the two scatters gives every position exactly one source value: the   *)
(* model output or the ground truth of that position, never a sum of the    *)
(* two and never the zero of an unassigned position.                        *)
C19_IndexSetsPartition ==
  SamplingCall =>
    LET B == BatchOf(args)
        out == [i \in 1..B |-> [d \in Feats |-> Prenetted(call.outputs[i][d])]]
        sample_ids == WhereSelect(TileColumns(call.select_sample, NumFeats), out,
                                  Fill(B, NumFeats, FillValue))
        where_sampling == WhereGreater(sample_ids, FillValue)
        where_not_sampling == WhereLessEqual(sample_ids, FillValue)
    IN  /\ \A j \in 1..Len(where_sampling) : \A k \in 1..Len(where_not_sampling) :
             where_sampling[j] # where_not_sampling[k]
        /\ \A i \in 1..B : \A d \in Feats :
             \/ \E j \in 1..Len(where_sampling) : where_sampling[j] = <<i, d>>
             \/ \E k \in 1..Len(where_not_sampling) : where_not_sampling[k] = <<i, d>>
        /\ \A i \in 1..B : \A d \in Feats :
             \/ ret.next_inputs[i][d] = Prenetted(call.outputs[i][d])
             \/ ret.next_inputs[i][d] = Prenetted(GroundTruthAt(i, call.time, d))

=============================================================================
